---------------------------- MODULE Spec2Model ----------------------------
(***************************************************************************)
(* Model of client/mcp_sse_client.py: MCPClientWrapper, the Gradio chat    *)
(* client that connects to an MCP server over SSE, sends each user turn to *)
(* Azure OpenAI and executes the tool calls the model requests.            *)
(*                                                                         *)
(* Python values are encoded as records tagged by their type (field py),   *)
(* so that None, str and dict values can live in the same field.  A dict   *)
(* is a TLA+ function from its keys to its values.  A message is a record  *)
(* with the keys of the Python dict; the "metadata" key is present only    *)
(* where the code sets it.                                                 *)
(***************************************************************************)
EXTENDS Integers, Sequences, FiniteSets, TLC

VARIABLES
    session,           \* self.session: 0 is None, k > 0 the ClientSession entered on exit stack k
    exit_stack,        \* self.exit_stack: 0 is None, k > 0 the k-th AsyncExitStack created
    response,          \* _connect local: response.tools of the last list_tools that returned
    tools,             \* self.tools: the catalog passed to the completion engine
    open_stacks,       \* exit stacks whose SSE transport is open (not yet aclose()d)
    stacks_created,    \* number of AsyncExitStack objects created so far
    status,            \* the "Connection Status" textbox: output of the last connect
    connect_exception, \* the exception that left the last connect ("" when none did)
    textbox,           \* the "Your Question" textbox, the second output of process_message
    chatbot,           \* the gr.Chatbot value: the history handed to process_message
    pc,                \* position of the current turn
    exception,         \* the exception that left process_message ("" when none did)
    message,           \* process_message argument: the user's text
    history,           \* process_message argument: the prior history
    openai_messages,   \* _process_query local: outbound message list
    result_messages,   \* _process_query local: messages emitted so far in the turn
    assistant_message, \* response.choices[0].message of the first engine call (None before)
    idx,               \* position of the for loop over tool_calls (0 outside the loop)
    tool_results,      \* outcomes of the call_tool calls that returned, in order
    next_responses,    \* messages of the follow-up responses received, in order
    engine_requests,   \* chat.completions.create calls issued in the turn, in order
    gateway_requests,  \* session.call_tool calls issued in the turn, in order
    in_flight,         \* remote calls issued and not yet returned
    turn_session       \* self.session as read by process_message at the start of the turn

vars == <<session, exit_stack, response, tools, open_stacks, stacks_created,
          status, connect_exception, textbox, chatbot, pc, exception, message, history, openai_messages, result_messages,
          assistant_message, idx, tool_results, next_responses,
          engine_requests, gateway_requests, in_flight, turn_session>>

connVars == <<session, exit_stack, response, tools, open_stacks,
              stacks_created, status, connect_exception>>

-----------------------------------------------------------------------------
(* Bounds                                                                  *)

MaxTools == 3          \* tools listed by a server (catalog specification)
MaxToolCalls == 2      \* tool calls requested by one engine response
MaxConnects == 2       \* connect calls in one behaviour
MaxHistory == 2        \* a turn starts only on a history of at most this length

-----------------------------------------------------------------------------
(* Python values                                                           *)

None == [py |-> "None"]
Str(s) == [py |-> "str", s |-> s]
Dict(d) == [py |-> "dict", d |-> d]
List(l) == [py |-> "list", items |-> l]

EmptyDict == [k \in {} |-> ""]

\* Python truth value of a value that is None, a str, a dict or a list.
Truthy(v) ==
    CASE v.py = "None" -> FALSE
      [] v.py = "str"  -> v.s # ""
      [] v.py = "dict" -> DOMAIN v.d # {}
      [] v.py = "list" -> v.items # <<>>

RECURSIVE JoinWith(_, _)
\* sep.join(items) for a sequence of strings
JoinWith(sep, items) ==
    IF items = <<>> THEN ""
    ELSE IF Len(items) = 1 THEN items[1]
    ELSE items[1] \o sep \o JoinWith(sep, Tail(items))

RECURSIVE SeqsUpTo(_, _)
\* all sequences over S of length at most n
SeqsUpTo(S, n) ==
    IF n = 0 THEN {<<>>}
    ELSE LET shorter == SeqsUpTo(S, n - 1)
         IN  shorter \cup {Append(q, e) : q \in shorter, e \in S}

-----------------------------------------------------------------------------
(* Tool catalog: _connect, lines 50-71                                     *)

\* The schema substituted for a missing or malformed one.
EmptyObjectSchema ==
    Dict([type |-> "object", properties |-> EmptyDict, required |-> <<>>])

\* inputSchema values a server may list.
InputSchemas ==
    { None,
      Dict(EmptyDict),
      Dict([type |-> "object",
            properties |-> [filter |-> "string"],
            required |-> <<"filter">>]),
      Dict([type |-> "string"]),
      Dict([properties |-> [filter |-> "string"]]),
      Str("object") }

ToolNames == {"list_items", "draw"}

Description(name) ==
    IF name = "draw" THEN "Draw an image" ELSE "List the items"

\* mcp.types.Tool objects of a list_tools response
RawTools ==
    {[name |-> n, description |-> Description(n), inputSchema |-> sch] :
        n \in ToolNames, sch \in InputSchemas}

\* One element of the list comprehension that builds self.tools.
CatalogEntry(tool) ==
    [type |-> "function",
     function |-> [name |-> tool.name,
                   description |-> tool.description,
                   parameters |-> IF Truthy(tool.inputSchema)
                                  THEN tool.inputSchema
                                  ELSE Dict(EmptyDict)]]

BuildCatalog(response_tools) ==
    [i \in 1..Len(response_tools) |-> CatalogEntry(response_tools[i])]

\* The condition of the "Validate tool schemas" loop.
SchemaInvalid(parameters) ==
    \/ parameters.py # "dict"
    \/ "type" \notin DOMAIN parameters.d
    \/ parameters.d["type"] # "object"

\* A validation loop body that forgets the check of the type's value.
ValidateTool_TypeUnchecked(tool) ==
    IF tool.function.parameters.py # "dict"
       \/ "type" \notin DOMAIN tool.function.parameters.d
    THEN [tool EXCEPT !.function.parameters = EmptyObjectSchema]
    ELSE tool

\* One iteration of the "Validate tool schemas" loop.
ValidateTool(tool) ==
    IF SchemaInvalid(tool.function.parameters)
    THEN [tool EXCEPT !.function.parameters = EmptyObjectSchema]
    ELSE tool

ValidateSchemas(catalog) ==
    [i \in 1..Len(catalog) |-> ValidateTool(catalog[i])]

\* A _connect that stores the catalog without validating it.
ConnectCatalog_Unvalidated(response_tools) ==
    BuildCatalog(response_tools)

\* self.tools as _connect leaves it for a list_tools response.
ConnectCatalog(response_tools) ==
    ValidateSchemas(BuildCatalog(response_tools))

\* The status text _connect returns.
ConnectedStatus(catalog) ==
    "Connected to MCP server. Available tools: "
        \o JoinWith(", ", [i \in 1..Len(catalog) |-> catalog[i].function.name])

-----------------------------------------------------------------------------
(* JSON texts: json.loads and json.dumps on the texts of the model         *)

JDict(d) == [j |-> "dict", d |-> d]
JNumber(n) == [j |-> "number", n |-> n]

ImageUrl == "http://x/y.png"

\* A JSON object over the keys type, url and message.  Each argument is
\* <<>> where the key is absent, <<v>> where its value is the string v.
JsonObject(type, url, msg) ==
    [k \in (IF type = <<>> THEN {} ELSE {"type"})
             \cup (IF url = <<>> THEN {} ELSE {"url"})
             \cup (IF msg = <<>> THEN {} ELSE {"message"}) |->
        CASE k = "type" -> type[1]
          [] k = "url" -> url[1]
          [] k = "message" -> msg[1]]

\* "key":"value" for a present key, in the text of a JSON object
JsonMember(key, value) ==
    IF value = <<>> THEN <<>>
    ELSE <<"\"" \o key \o "\":\"" \o value[1] \o "\"">>

JsonObjectText(type, url, msg) ==
    "{" \o JoinWith(",", JsonMember("type", type) \o JsonMember("url", url)
                            \o JsonMember("message", msg)) \o "}"

\* The texts of the model that are JSON documents, with the value
\* json.loads returns for each.  Every other text makes json.loads raise.
JsonDocuments ==
    { [text |-> JsonObjectText(t, u, m), value |-> JDict(JsonObject(t, u, m))] :
        t \in {<<>>, <<"image">>, <<"text">>},
        u \in {<<>>, <<ImageUrl>>},
        m \in {<<>>, <<"m">>, <<"">>} }
    \cup
    { [text |-> "{\"filter\":\"all\"}", value |-> JDict([filter |-> "all"])],
      [text |-> "{\n\"count\":\"42\"\n}", value |-> JDict([count |-> "42"])],
      [text |-> "42", value |-> JNumber(42)],
      [text |-> "\"plain output\"", value |-> [j |-> "string", s |-> "plain output"]],
      [text |-> "[]", value |-> [j |-> "list", items |-> <<>>]] }

\* Texts that are not JSON documents.
PlainTexts ==
    {"42 items", "plain output", "timeout", "", "{\"type\":\"image\",\"url\":"}

\* json.loads(text): ok is FALSE where it raises JSONDecodeError.
json_loads(text) ==
    IF \E doc \in JsonDocuments : doc.text = text
    THEN [ok |-> TRUE,
          value |-> (CHOOSE doc \in JsonDocuments : doc.text = text).value]
    ELSE [ok |-> FALSE]

\* json.dumps(tool_args, ensure_ascii=True) of the argument dicts of the
\* model: the separators are ", " and ": ".
json_dumps(value) ==
    IF value.d = EmptyDict THEN "{}"
    ELSE "{" \o JoinWith(", ", <<"\"filter\": \"" \o value.d["filter"] \o "\"">>) \o "}"

\* json.dumps(tool_args, indent=2, ensure_ascii=True)
json_dumps_indent(value) ==
    IF value.d = EmptyDict THEN "{}"
    ELSE "{\n  " \o "\"filter\": \"" \o value.d["filter"] \o "\"" \o "\n}"

-----------------------------------------------------------------------------
(* Messages built by _process_query                                        *)

\* The Markdown code fence, three backquotes in the source.  A TLA+ string
\* cannot hold a backquote, so the fence is written with apostrophes.
Fence == "'''"

UserMessage(text) == [role |-> "user", content |-> Str(text)]

ConnectFirstMessage ==
    [role |-> "assistant",
     content |-> Str("Please connect to an MCP server first.")]

TextMessage(content) == [role |-> "assistant", content |-> content]

Announcement(tool_name, tool_args) ==
    [role |-> "assistant",
     content |-> Str("I'll use the " \o tool_name
                        \o " tool to help answer your question."),
     metadata |-> [title |-> "Using tool: " \o tool_name,
                   log |-> "Parameters: " \o json_dumps(tool_args),
                   status |-> "pending",
                   id |-> "tool_call_" \o tool_name]]

ParametersMessage(tool_name, tool_args) ==
    [role |-> "assistant",
     content |-> Str(Fence \o "json\n" \o json_dumps_indent(tool_args)
                        \o "\n" \o Fence),
     metadata |-> [parent_id |-> "tool_call_" \o tool_name,
                   id |-> "params_" \o tool_name,
                   title |-> "Tool Parameters"]]

ResultAnnouncement(tool_name) ==
    [role |-> "assistant",
     content |-> Str("Here are the results from the tool:"),
     metadata |-> [title |-> "Tool Result for " \o tool_name,
                   status |-> "done",
                   id |-> "result_" \o tool_name]]

\* result_json["message"] or "Generated image": an empty message is replaced
\* like an absent one.
AltText_OrDefault(result_json) ==
    IF "message" \in DOMAIN result_json.d /\ result_json.d["message"] # ""
    THEN result_json.d["message"]
    ELSE "Generated image"

\* result_json.get("message", "Generated image")
AltText(result_json) ==
    IF "message" \in DOMAIN result_json.d
    THEN result_json.d["message"]
    ELSE "Generated image"

ImageMessage(tool_name, result_json) ==
    [role |-> "assistant",
     content |-> Dict([path |-> result_json.d["url"],
                       alt_text |-> AltText(result_json)]),
     metadata |-> [parent_id |-> "result_" \o tool_name,
                   id |-> "image_" \o tool_name,
                   title |-> "Generated Image"]]

\* A raw output display that names the tool call's id prefix for its parent.
RawOutputMessage_ParentMisnamed(tool_name, result_content) ==
    [role |-> "assistant",
     content |-> Str(Fence \o "\n" \o result_content \o "\n" \o Fence),
     metadata |-> [parent_id |-> "tool_result_" \o tool_name,
                   id |-> "raw_result_" \o tool_name,
                   title |-> "Raw Output"]]

RawOutputMessage(tool_name, result_content) ==
    [role |-> "assistant",
     content |-> Str(Fence \o "\n" \o result_content \o "\n" \o Fence),
     metadata |-> [parent_id |-> "result_" \o tool_name,
                   id |-> "raw_result_" \o tool_name,
                   title |-> "Raw Output"]]

\* result.content as text: a list is joined with newlines.
ResultText(content) ==
    IF content.py = "list" THEN JoinWith("\n", content.items) ELSE content.s

\* The try/except after the result announcement: the messages it appends.
RenderPayload(tool_name, result_content) ==
    LET parsed == json_loads(result_content)
    IN  IF ~parsed.ok
        THEN <<RawOutputMessage(tool_name, result_content)>>
        ELSE LET result_json == parsed.value
             IN  IF result_json.j = "dict" /\ "type" \in DOMAIN result_json.d
                 THEN IF result_json.d["type"] = "image"
                         /\ "url" \in DOMAIN result_json.d
                      THEN <<ImageMessage(tool_name, result_json)>>
                      ELSE <<RawOutputMessage(tool_name, result_content)>>
                 ELSE <<>>

\* A loop that never updates the announcement.
MarkDone_Skipped(messages) == messages

\* result_messages[-2]["metadata"]["status"] = "done", under its condition.
MarkDone(messages) ==
    LET k == Len(messages) - 1
    IN  IF messages # <<>> /\ "metadata" \in DOMAIN messages[k]
        THEN [messages EXCEPT ![k].metadata.status = "done"]
        ELSE messages

\* The assistant message that repeats the tool call to the engine.
ToolCallEcho(tool_call, tool_args) ==
    [role |-> "assistant",
     content |-> None,
     tool_calls |-> <<[id |-> tool_call.id,
                       type |-> "function",
                       function |-> [name |-> tool_call.function.name,
                                     arguments |-> json_dumps(tool_args)]]>>]

\* A tool message keyed by the name of the tool, not by the id of the call.
ToolMessage_KeyedByName(tool_call, result_content) ==
    [role |-> "tool",
     tool_call_id |-> tool_call.function.name,
     content |-> Str(result_content)]

ToolMessage(tool_call, result_content) ==
    [role |-> "tool",
     tool_call_id |-> tool_call.id,
     content |-> Str(result_content)]

\* msg.get("content")
GetContent(msg) == IF "content" \in DOMAIN msg THEN msg.content ELSE None

\* A history loop without the test of the role.
ConvertHistory_Unfiltered(msgs) ==
    [k \in 1..Len(msgs) |->
        [role |-> msgs[k].role, content |-> GetContent(msgs[k])]]

RECURSIVE ConvertHistory(_)
\* The history loop: role and content of the messages with a known role.
ConvertHistory(msgs) ==
    IF msgs = <<>> THEN <<>>
    ELSE LET msg == Head(msgs)
         IN  (IF msg.role \in {"user", "assistant", "system"}
              THEN <<[role |-> msg.role, content |-> GetContent(msg)]>>
              ELSE <<>>) \o ConvertHistory(Tail(msgs))

FirstRequest(messages) ==
    [messages |-> messages, tools |-> tools, tool_choice |-> "auto",
     max_tokens |-> 1000]

FollowUpRequest(messages) ==
    [messages |-> messages, max_tokens |-> 1000]

-----------------------------------------------------------------------------
(* Inputs: what the user, the MCP server and the completion engine supply  *)

UserTexts == {"List my resources"}

\* The list_tools response of the server the chat specification connects to.
ServerTools ==
    <<[name |-> "list_items", description |-> Description("list_items"),
       inputSchema |-> Dict([type |-> "object",
                             properties |-> [filter |-> "string"],
                             required |-> <<"filter">>])],
      [name |-> "draw", description |-> Description("draw"),
       inputSchema |-> None]>>

\* name and arguments of a requested tool call; the last one has arguments
\* cut off in the middle, which json.loads rejects
ToolFunctions ==
    { [name |-> "list_items", arguments |-> "{\"filter\":\"all\"}"],
      [name |-> "draw", arguments |-> "{}"],
      [name |-> "draw", arguments |-> "{\"filter\":"] }

\* tool_calls of a response: the engine gives every call its own id
ToolCallLists ==
    { [i \in 1..Len(fs) |-> [id |-> "call_" \o ToString(i),
                             type |-> "function",
                             function |-> fs[i]]] :
        fs \in SeqsUpTo(ToolFunctions, MaxToolCalls) }

AnswerTexts == {None, Str(""), Str("You have 42 items.")}

\* response.choices[0].message of the first engine call
FirstResponses ==
    {[content |-> c, tool_calls |-> <<>>] : c \in AnswerTexts}
        \cup {[content |-> None, tool_calls |-> tc] :
                 tc \in ToolCallLists \ {<<>>}}

\* next_response.choices[0].message of a follow-up engine call
FollowUpResponses ==
    { [content |-> Str("Done."), tool_calls |-> <<>>],
      [content |-> None,
       tool_calls |-> <<[id |-> "call_9", type |-> "function",
                         function |-> [name |-> "draw",
                                       arguments |-> "{}"]]>>] }

\* result.content of a call_tool that returns, in the chat specification:
\* plain text, an image, a typed object that is no image, an untyped object
ToolContents ==
    { List(<<"42 items">>),
      Str(JsonObjectText(<<"image">>, <<ImageUrl>>, <<"m">>)),
      Str(JsonObjectText(<<"text">>, <<>>, <<"m">>)),
      List(<<"{", "\"count\":\"42\"", "}">>) }

\* result.content of a call_tool that returns, in the renderer
\* specification: every text of the model, as a str, as a list of one item
\* and as a list of two items
AllToolContents ==
    LET texts == {doc.text : doc \in JsonDocuments} \cup PlainTexts
    IN  {Str(t) : t \in texts}
            \cup {List(<<t>>) : t \in texts}
            \cup {List(<<t, "plain output">>) : t \in PlainTexts}
            \cup ToolContents

\* the text of the exception a failed call_tool raises
ToolErrors == {"timeout"}

-----------------------------------------------------------------------------
(* State after construction: __init__ and the empty Chatbot                *)

Init ==
    /\ session = 0
    /\ exit_stack = 0
    /\ response = <<>>
    /\ tools = <<>>
    /\ open_stacks = {}
    /\ stacks_created = 0
    /\ status = ""
    /\ connect_exception = ""
    /\ textbox = ""
    /\ chatbot = <<>>
    /\ pc = "AWAITING_USER_INPUT"
    /\ exception = ""
    /\ message = ""
    /\ history = <<>>
    /\ openai_messages = <<>>
    /\ result_messages = <<>>
    /\ assistant_message = None
    /\ idx = 0
    /\ tool_results = <<>>
    /\ next_responses = <<>>
    /\ engine_requests = <<>>
    /\ gateway_requests = <<>>
    /\ in_flight = {}
    /\ turn_session = 0

\* No turn is running: the event loop is free.
Idle == pc \in {"AWAITING_USER_INPUT", "DONE", "RAISED"}

\* The locals of a finished turn are gone once another handler runs: the
\* record the model keeps of the last turn is cleared.
ForgetTurn ==
    /\ pc' = "AWAITING_USER_INPUT"
    /\ exception' = ""
    /\ message' = ""
    /\ history' = <<>>
    /\ openai_messages' = <<>>
    /\ result_messages' = <<>>
    /\ assistant_message' = None
    /\ idx' = 0
    /\ tool_results' = <<>>
    /\ next_responses' = <<>>
    /\ engine_requests' = <<>>
    /\ gateway_requests' = <<>>
    /\ in_flight' = {}
    /\ turn_session' = 0

-----------------------------------------------------------------------------
(* connect / _connect.  loop.run_until_complete runs _connect to its end   *)
(* and refuses to start while a turn runs on the loop, so a connect is one *)
(* step taken between turns.  outcome says how far the server lets it get. *)

ConnectOutcomes == {"connected", "transport_error", "list_tools_error"}

\* A _connect that opens the new connection without closing the old one.
ClosePrevious_Skipped == open_stacks

\* "if self.exit_stack: await self.exit_stack.aclose()": the open
\* connections it leaves.
ClosePrevious ==
    IF exit_stack # 0 THEN open_stacks \ {exit_stack} ELSE open_stacks

\* An exception that leaves connect reaches Gradio, which shows it as an
\* error and leaves the status textbox as it was.
Connect(outcome, response_tools) ==
    /\ Idle
    /\ stacks_created < MaxConnects
    /\ LET new_stack == stacks_created + 1
           closed == ClosePrevious
       IN  /\ stacks_created' = new_stack
           /\ exit_stack' = new_stack
           /\ CASE outcome = "transport_error" ->
                     /\ open_stacks' = closed
                     /\ connect_exception' = "ConnectionError: transport"
                     /\ UNCHANGED <<session, response, tools, status>>
                [] outcome = "list_tools_error" ->
                     /\ open_stacks' = closed \cup {new_stack}
                     /\ session' = new_stack
                     /\ connect_exception' = "ConnectionError: list_tools"
                     /\ UNCHANGED <<response, tools, status>>
                [] outcome = "connected" ->
                     /\ open_stacks' = closed \cup {new_stack}
                     /\ session' = new_stack
                     /\ response' = response_tools
                     /\ tools' = ConnectCatalog(response_tools)
                     /\ status' = ConnectedStatus(tools')
                     /\ connect_exception' = ""
    /\ ForgetTurn
    /\ UNCHANGED <<chatbot, textbox>>

-----------------------------------------------------------------------------
(* process_message / _process_query.  The handler is cut at its remote     *)
(* calls: an action runs the code from one call's return to the next call. *)

\* A process_message that never takes the not-connected branch.
NotConnected_Never == FALSE

\* "if not self.session"
NotConnected == session = 0

\* A loop that issues a remote call without awaiting the one before it.
InFlightAfter_NotAwaited(returned, issued) == in_flight \cup issued

\* The remote calls in flight once the awaited calls have returned and the
\* next calls are issued.
InFlightAfter(returned, issued) == (in_flight \ returned) \cup issued

\* A process_message that returns only the messages of the turn.
Return_WithoutPrior(prior, text, new_messages) ==
    /\ chatbot' = <<UserMessage(text)>> \o new_messages
    /\ textbox' = ""
    /\ pc' = "DONE"
    /\ exception' = ""
    /\ in_flight' = InFlightAfter(in_flight, {})

\* process_message returns: the Chatbot receives the new history and the
\* question textbox the empty gr.Textbox.
Return(prior, text, new_messages) ==
    /\ chatbot' = prior \o <<UserMessage(text)>> \o new_messages
    /\ textbox' = ""
    /\ pc' = "DONE"
    /\ exception' = ""
    /\ in_flight' = InFlightAfter(in_flight, {})

\* An exception leaves process_message: Gradio keeps the Chatbot as it was.
Raise(error) ==
    /\ pc' = "RAISED"
    /\ exception' = error
    /\ in_flight' = InFlightAfter(in_flight, {})
    /\ UNCHANGED <<chatbot, textbox>>

\* The head of the for loop body for tool_calls[i], up to the call_tool
\* request.  emitted is result_messages before the iteration.
StartToolCall(calls, i, emitted) ==
    LET tool_call == calls[i]
        tool_name == tool_call.function.name
        parsed == json_loads(tool_call.function.arguments)
    IN  /\ idx' = i
        /\ IF ~parsed.ok
           THEN /\ result_messages' = emitted
                /\ UNCHANGED gateway_requests
                /\ Raise("JSONDecodeError")
           ELSE /\ result_messages' =
                       emitted \o <<Announcement(tool_name, parsed.value),
                                    ParametersMessage(tool_name, parsed.value)>>
                /\ gateway_requests' =
                       Append(gateway_requests,
                              [session |-> session, name |-> tool_name,
                               arguments |-> parsed.value])
                /\ pc' = "EXECUTING_TOOLS"
                /\ exception' = ""
                /\ in_flight' = InFlightAfter({"completion"}, {"call_tool"})
                /\ UNCHANGED <<chatbot, textbox>>

ProcessMessage(text) ==
    /\ Idle
    /\ Len(chatbot) <= MaxHistory
    /\ message' = text
    /\ history' = chatbot
    /\ turn_session' = session
    /\ result_messages' = <<>>
    /\ assistant_message' = None
    /\ idx' = 0
    /\ tool_results' = <<>>
    /\ next_responses' = <<>>
    /\ gateway_requests' = <<>>
    /\ IF NotConnected
       THEN /\ Return(chatbot, text, <<ConnectFirstMessage>>)
            /\ openai_messages' = <<>>
            /\ engine_requests' = <<>>
       ELSE /\ openai_messages' =
                   Append(ConvertHistory(chatbot),
                          [role |-> "user", content |-> Str(text)])
            /\ engine_requests' = <<FirstRequest(openai_messages')>>
            /\ in_flight' = InFlightAfter({}, {"completion"})
            /\ pc' = "REQUESTING_COMPLETION"
            /\ exception' = ""
            /\ textbox' = text
            /\ UNCHANGED chatbot
    /\ UNCHANGED connVars

\* A follow-up loop that appends the follow-up text without testing it.
FollowUpText_Unconditional(next_message) ==
    <<TextMessage(next_message.content)>>

\* "if next_response.choices[0].message.content": the message appended for
\* a follow-up response.
FollowUpText(next_message) ==
    IF Truthy(next_message.content)
    THEN <<TextMessage(next_message.content)>>
    ELSE <<>>

\* The first chat.completions.create raises.
CompletionRaises ==
    /\ pc = "REQUESTING_COMPLETION"
    /\ Raise("CompletionEngineError")
    /\ UNCHANGED <<message, history, openai_messages, result_messages,
                   assistant_message, idx, tool_results, next_responses,
                   engine_requests, gateway_requests, turn_session>>
    /\ UNCHANGED connVars

\* The first chat.completions.create returns.
CompletionReturns(response_message) ==
    /\ pc = "REQUESTING_COMPLETION"
    /\ assistant_message' = response_message
    /\ IF response_message.tool_calls = <<>>
       THEN /\ result_messages' = <<TextMessage(response_message.content)>>
            /\ Return(history, message, result_messages')
            /\ UNCHANGED <<idx, gateway_requests>>
       ELSE StartToolCall(response_message.tool_calls, 1, <<>>)
    /\ UNCHANGED <<message, history, openai_messages, tool_results,
                   next_responses, engine_requests, turn_session>>
    /\ UNCHANGED connVars

\* call_tool raises: the remote tool failed or timed out, or the session's
\* connection is closed.
ToolRaises(error) ==
    /\ pc = "EXECUTING_TOOLS"
    /\ tool_results' = Append(tool_results, [raised |-> TRUE, error |-> error])
    /\ Raise("ToolExecutionError: " \o error)
    /\ UNCHANGED <<message, history, openai_messages, result_messages,
                   assistant_message, idx, next_responses, engine_requests,
                   gateway_requests, turn_session>>
    /\ UNCHANGED connVars

\* call_tool returns: the rest of the loop body up to the follow-up request.
ToolReturns(content) ==
    /\ pc = "EXECUTING_TOOLS"
    /\ session \in open_stacks
    /\ LET tool_call == assistant_message.tool_calls[idx]
           tool_name == tool_call.function.name
           tool_args == json_loads(tool_call.function.arguments).value
           result_content == ResultText(content)
       IN  /\ tool_results' =
                  Append(tool_results, [raised |-> FALSE, content |-> content])
           /\ result_messages' =
                  MarkDone(result_messages)
                      \o <<ResultAnnouncement(tool_name)>>
                      \o RenderPayload(tool_name, result_content)
           /\ openai_messages' =
                  openai_messages \o <<ToolCallEcho(tool_call, tool_args),
                                       ToolMessage(tool_call, result_content)>>
           /\ engine_requests' =
                  Append(engine_requests, FollowUpRequest(openai_messages'))
    /\ pc' = "REQUESTING_FOLLOWUP"
    /\ in_flight' = InFlightAfter({"call_tool"}, {"completion"})
    /\ UNCHANGED <<chatbot, textbox, exception, message, history, assistant_message, idx,
                   next_responses, gateway_requests, turn_session>>
    /\ UNCHANGED connVars

\* The follow-up chat.completions.create raises.
FollowUpRaises ==
    /\ pc = "REQUESTING_FOLLOWUP"
    /\ Raise("CompletionEngineError")
    /\ UNCHANGED <<message, history, openai_messages, result_messages,
                   assistant_message, idx, tool_results, next_responses,
                   engine_requests, gateway_requests, turn_session>>
    /\ UNCHANGED connVars

\* "for tool_call in assistant_message.tool_calls": the loop has another
\* iteration.
MoreToolCalls == idx < Len(assistant_message.tool_calls)

\* The follow-up chat.completions.create returns: the end of the loop body,
\* then the next iteration or the return.
FollowUpReturns(next_message) ==
    /\ pc = "REQUESTING_FOLLOWUP"
    /\ next_responses' = Append(next_responses, next_message)
    /\ LET emitted == result_messages \o FollowUpText(next_message)
       IN  IF MoreToolCalls
           THEN StartToolCall(assistant_message.tool_calls, idx + 1, emitted)
           ELSE /\ result_messages' = emitted
                /\ Return(history, message, emitted)
                /\ UNCHANGED <<idx, gateway_requests>>
    /\ UNCHANGED <<message, history, openai_messages, assistant_message,
                   tool_results, engine_requests, turn_session>>
    /\ UNCHANGED connVars

\* The "Clear Chat" button.
ClearChat ==
    /\ Idle
    /\ chatbot # <<>>
    /\ chatbot' = <<>>
    /\ ForgetTurn
    /\ UNCHANGED textbox
    /\ UNCHANGED connVars

-----------------------------------------------------------------------------
(* Specifications                                                          *)

\* The chat client against one server.
Next ==
    \/ \E outcome \in ConnectOutcomes : Connect(outcome, ServerTools)
    \/ \E text \in UserTexts : ProcessMessage(text)
    \/ CompletionRaises
    \/ \E response_message \in FirstResponses : CompletionReturns(response_message)
    \/ \E error \in ToolErrors : ToolRaises(error)
    \/ \E content \in ToolContents : ToolReturns(content)
    \/ FollowUpRaises
    \/ \E next_message \in FollowUpResponses : FollowUpReturns(next_message)
    \/ ClearChat

Spec == Init /\ [][Next]_vars

\* The tool catalog: the first connect of a client, against every list_tools
\* response of the bound.
NextCatalog ==
    /\ stacks_created = 0
    /\ \E response_tools \in SeqsUpTo(RawTools, MaxTools) :
           Connect("connected", response_tools)

SpecCatalog == Init /\ [][NextCatalog]_vars


\* The result renderer: a turn that waits for the result of its one tool
\* call, for every tool content of the bound.
InitRender ==
    \E f \in {g \in ToolFunctions : json_loads(g.arguments).ok} :
        LET tool_call == [id |-> "call_1", type |-> "function", function |-> f]
            tool_args == json_loads(f.arguments).value
        IN  /\ session = 1
            /\ exit_stack = 1
            /\ response = ServerTools
            /\ tools = ConnectCatalog(ServerTools)
            /\ open_stacks = {1}
            /\ stacks_created = 1
            /\ status = ConnectedStatus(tools)
            /\ connect_exception = ""
            /\ message \in UserTexts
            /\ textbox = message
            /\ chatbot = <<>>
            /\ pc = "EXECUTING_TOOLS"
            /\ exception = ""
            /\ history = <<>>
            /\ openai_messages = <<[role |-> "user", content |-> Str(message)]>>
            /\ result_messages = <<Announcement(f.name, tool_args),
                                   ParametersMessage(f.name, tool_args)>>
            /\ assistant_message = [content |-> None, tool_calls |-> <<tool_call>>]
            /\ idx = 1
            /\ tool_results = <<>>
            /\ next_responses = <<>>
            /\ engine_requests = <<FirstRequest(openai_messages)>>
            /\ gateway_requests = <<[session |-> 1, name |-> f.name,
                                     arguments |-> tool_args]>>
            /\ in_flight = {"call_tool"}
            /\ turn_session = 1

NextRender ==
    \E content \in AllToolContents : ToolReturns(content)

SpecRender == InitRender /\ [][NextRender]_vars

\* The history specification: a connected client receives a question with a
\* prior history of any of the messages a Chatbot value can hold.
HistoryMessages ==
    {UserMessage("How many items?"),
     TextMessage(Str("You have 42 items.")),
     TextMessage(None),
     Announcement("draw", json_loads("{}").value),
     [role |-> "system", content |-> Str("Answer briefly.")],
     [role |-> "tool", tool_call_id |-> "call_1", content |-> Str("42 items")],
     [role |-> "function", name |-> "draw", content |-> Str("{}")],
     [role |-> "assistant", metadata |-> [title |-> "Thinking"]]}

InitHistory ==
    /\ session = 1
    /\ exit_stack = 1
    /\ response = ServerTools
    /\ tools = ConnectCatalog(ServerTools)
    /\ open_stacks = {1}
    /\ stacks_created = 1
    /\ status = ConnectedStatus(tools)
    /\ connect_exception = ""
    /\ textbox = ""
    /\ chatbot \in SeqsUpTo(HistoryMessages, MaxHistory)
    /\ pc = "AWAITING_USER_INPUT"
    /\ exception = ""
    /\ message = ""
    /\ history = <<>>
    /\ openai_messages = <<>>
    /\ result_messages = <<>>
    /\ assistant_message = None
    /\ idx = 0
    /\ tool_results = <<>>
    /\ next_responses = <<>>
    /\ engine_requests = <<>>
    /\ gateway_requests = <<>>
    /\ in_flight = {}
    /\ turn_session = 0

NextHistory ==
    \E text \in UserTexts : ProcessMessage(text)

SpecHistory == InitHistory /\ [][NextHistory]_vars

-----------------------------------------------------------------------------
(* Properties                                                              *)

\* A turn of the model that went through _process_query to its return.
TurnReturned == pc = "DONE" /\ turn_session # 0

\* The tool calls the first engine response of the turn requested.
RequestedCalls ==
    IF "tool_calls" \in DOMAIN assistant_message
    THEN assistant_message.tool_calls
    ELSE <<>>

\* C1: when process_message is called while no session is connected, the
\* output added to the history is the user message and the single assistant
\* message "Please connect to an MCP server first.", and the turn calls
\* neither the completion engine nor the session gateway.
C1_NotConnectedReply ==
    (pc = "DONE" /\ turn_session = 0) =>
        /\ chatbot = history \o
               <<[role |-> "user", content |-> Str(message)],
                 [role |-> "assistant",
                  content |-> Str("Please connect to an MCP server first.")]>>
        /\ engine_requests = <<>>
        /\ gateway_requests = <<>>
        /\ in_flight = {}

\* C1 witness: a not-connected turn on a history that is not empty.
C1_Witness ==
    /\ pc = "DONE"
    /\ turn_session = 0
    /\ history # <<>>
    /\ Len(chatbot) = Len(history) + 2

\* C2: in a turn whose first engine response has no tool calls, the emitted
\* sequence is exactly one assistant message with the engine's text when the
\* text is non-empty, and is empty when the text is empty or absent.
C2_DirectAnswer ==
    (TurnReturned /\ "tool_calls" \in DOMAIN assistant_message
        /\ assistant_message.tool_calls = <<>>) =>
        IF assistant_message.content.py = "str"
           /\ assistant_message.content.s # ""
        THEN result_messages =
                 <<[role |-> "assistant", content |-> assistant_message.content]>>
        ELSE result_messages = <<>>


\* The kinds of emitted message, told apart by their metadata.
HasMetadata(m) == "metadata" \in DOMAIN m

IsAnnouncement(m) == HasMetadata(m) /\ "log" \in DOMAIN m.metadata

IsAnnouncementOf(m, name) ==
    IsAnnouncement(m) /\ m.metadata.id = "tool_call_" \o name

IsParametersOf(m, name) ==
    /\ HasMetadata(m)
    /\ m.metadata.id = "params_" \o name
    /\ m.metadata.parent_id = "tool_call_" \o name

IsResultAnnouncementOf(m, name) ==
    HasMetadata(m) /\ m.metadata.id = "result_" \o name

IsPayloadOf(m, name) ==
    /\ HasMetadata(m)
    /\ m.metadata.id \in {"image_" \o name, "raw_result_" \o name}
    /\ m.metadata.parent_id = "result_" \o name

IsPlainText(m) == ~HasMetadata(m)

\* The positions of the announcements in the emitted sequence, ascending.
AnnouncementPositions(msgs) ==
    SelectSeq([k \in 1..Len(msgs) |-> k], LAMBDA k : IsAnnouncement(msgs[k]))

\* The messages from the i-th announcement up to the next announcement.
Block(msgs, i) ==
    LET at == AnnouncementPositions(msgs)
        last == IF i < Len(at) THEN at[i + 1] - 1 ELSE Len(msgs)
    IN  SubSeq(msgs, at[i], last)

\* C3: in a turn whose first response requests N >= 1 tool calls, the
\* gateway is invoked for the requests in request order, and the emitted
\* sequence holds for each call, in this order, its announcement, its
\* parameter display, its result announcement and its result payload; the
\* messages of call i precede the announcement of call i+1.
C3_CallsInOrderWithMessages ==
    (TurnReturned /\ RequestedCalls # <<>>) =>
        LET n == Len(RequestedCalls)
        IN  /\ Len(gateway_requests) = n
            /\ \A i \in 1..n :
                   gateway_requests[i].name = RequestedCalls[i].function.name
            /\ Len(AnnouncementPositions(result_messages)) = n
            /\ \A i \in 1..n :
                   LET name == RequestedCalls[i].function.name
                       block == Block(result_messages, i)
                   IN  /\ IsAnnouncementOf(block[1], name)
                       /\ \E p, r, y \in 2..Len(block) :
                              /\ p < r
                              /\ r < y
                              /\ IsParametersOf(block[p], name)
                              /\ IsResultAnnouncementOf(block[r], name)
                              /\ IsPayloadOf(block[y], name)


\* The plain-text messages of a sequence, in order.
PlainTexts_In(msgs) == SelectSeq(msgs, IsPlainText)

\* How many messages of an outbound list have the role "tool".
ToolMessageCount(msgs) ==
    Len(SelectSeq(msgs, LAMBDA m : m.role = "tool"))

NonEmptyText(content) == content.py = "str" /\ content.s # ""

C5_ToolFailureIsData ==
    \A i \in 1..Len(tool_results) :
        tool_results[i].raised =>
            LET error == tool_results[i].error
            IN  /\ ~(pc = "RAISED"
                       /\ exception = "ToolExecutionError: " \o error)
                /\ Len(engine_requests) > i
                /\ \E k \in 1..Len(engine_requests[i + 1].messages) :
                       LET m == engine_requests[i + 1].messages[k]
                       IN  m.role = "tool" /\ m.content = Str(error)
                /\ \E k \in 1..Len(result_messages) :
                       result_messages[k].content =
                           Str(Fence \o "\n" \o error \o "\n" \o Fence)

\* C6: when a completion engine call fails, the turn ends in DONE with the
\* error as the turn's sole assistant message, and process_message returns
\* the prior history, the user message and that one message.
C6_EngineFailureSurfaced ==
    exception = "CompletionEngineError" =>
        /\ pc = "DONE"
        /\ Len(result_messages) = 1
        /\ IsPlainText(result_messages[1])
        /\ chatbot = history \o <<[role |-> "user", content |-> Str(message)]>>
                         \o result_messages

\* The text parses as a JSON object with type "image" and a url.
IsImageJson(text) ==
    LET parsed == json_loads(text)
    IN  /\ parsed.ok
        /\ parsed.value.j = "dict"
        /\ "type" \in DOMAIN parsed.value.d
        /\ parsed.value.d["type"] = "image"
        /\ "url" \in DOMAIN parsed.value.d

\* The messages of a group that are linked to the result announcement.
PayloadsOf(block, name) ==
    SelectSeq(block, LAMBDA m : HasMetadata(m)
                                  /\ "parent_id" \in DOMAIN m.metadata
                                  /\ m.metadata.parent_id = "result_" \o name)

\* C7: for every tool result content the renderer emits the fixed result
\* announcement (status done) followed by exactly one payload message linked
\* to it by parent_id: an image message when the content parses as a JSON
\* object with type image and a url, a preformatted-text message wrapping
\* the raw text in every other case.
C7_OnePayloadPerResult ==
    \A i \in 1..Len(tool_results) :
        ~tool_results[i].raised =>
            LET name == RequestedCalls[i].function.name
                text == ResultText(tool_results[i].content)
                block == Block(result_messages, i)
                payloads == PayloadsOf(block, name)
            IN  /\ Len(block) >= 4
                /\ block[3].content = Str("Here are the results from the tool:")
                /\ block[3].metadata.status = "done"
                /\ block[3].metadata.id = "result_" \o name
                /\ payloads = <<block[4]>>
                /\ IF IsImageJson(text)
                   THEN block[4].content.py = "dict"
                   ELSE block[4].content =
                            Str(Fence \o "\n" \o text \o "\n" \o Fence)

\* C8: a tool result whose content is a JSON object with type image and a
\* url renders to exactly one image message, whose content has path equal to
\* the url and, as its caption (the alt_text key), the object's message
\* field, or "Generated image" when the object has no message field.
C8_ImageMessage ==
    \A i \in 1..Len(tool_results) :
        (~tool_results[i].raised
            /\ IsImageJson(ResultText(tool_results[i].content))) =>
            LET name == RequestedCalls[i].function.name
                object == json_loads(ResultText(tool_results[i].content)).value.d
                payloads == PayloadsOf(Block(result_messages, i), name)
            IN  /\ Len(payloads) = 1
                /\ payloads[1].role = "assistant"
                /\ payloads[1].content.py = "dict"
                /\ DOMAIN payloads[1].content.d = {"path", "alt_text"}
                /\ payloads[1].content.d["path"] = object["url"]
                /\ payloads[1].content.d["alt_text"] =
                       IF "message" \in DOMAIN object
                       THEN object["message"]
                       ELSE "Generated image"
                /\ payloads[1].metadata.id = "image_" \o name

\* C8 witness: image results rendered, one with a message that is empty.
C8_Witness ==
    /\ pc = "REQUESTING_FOLLOWUP"
    /\ Len(tool_results) = 1
    /\ ~tool_results[1].raised
    /\ IsImageJson(ResultText(tool_results[1].content))
    /\ "message" \in DOMAIN json_loads(ResultText(tool_results[1].content)).value.d
    /\ result_messages[Len(result_messages)].content =
           Dict([path |-> ImageUrl, alt_text |-> ""])

\* A descriptor's schema is absent, not an object, or lacks type "object".
Malformed(schema) ==
    \/ schema.py # "dict"
    \/ "type" \notin DOMAIN schema.d
    \/ schema.d["type"] # "object"

\* C9: after a successful connect, the catalog entry of every descriptor
\* whose schema is absent, not an object or without type "object" has
\* exactly the parameters {type: object, properties: {}, required: []};
\* every entry of the catalog has parameters of type "object".
C9_MalformedSchemaNormalized ==
    /\ Len(tools) = Len(response)
    /\ \A i \in 1..Len(tools) :
           LET parameters == tools[i].function.parameters
           IN  /\ parameters.py = "dict"
               /\ "type" \in DOMAIN parameters.d
               /\ parameters.d["type"] = "object"
               /\ Malformed(response[i].inputSchema) =>
                      parameters = Dict([type |-> "object",
                                         properties |-> EmptyDict,
                                         required |-> <<>>])

\* C9 witness: a connected catalog with a schema of type "string", an
\* absent schema and a well-formed schema that is kept.
C9_Witness ==
    /\ session # 0
    /\ \E i, j, k \in 1..Len(tools) :
           /\ response[i].inputSchema = Dict([type |-> "string"])
           /\ response[j].inputSchema = None
           /\ ~Malformed(response[k].inputSchema)
           /\ tools[k].function.parameters = response[k].inputSchema
           /\ "properties" \in DOMAIN tools[k].function.parameters.d
           /\ tools[k].function.parameters.d["properties"] # EmptyDict

\* C10: the schema validation is idempotent: applied to the catalog a
\* connect has stored, it changes no entry.
C10_ValidationIdempotent ==
    /\ Len(ValidateSchemas(tools)) = Len(tools)
    /\ \A i \in 1..Len(tools) :
           LET again == ValidateTool(tools[i])
           IN  /\ again.function.name = tools[i].function.name
               /\ again.function.description = tools[i].function.description
               /\ again.function.parameters = tools[i].function.parameters
               /\ again = tools[i]

\* C10 witness: a stored catalog in which the validation replaced one schema
\* and kept another.
C10_Witness ==
    /\ session # 0
    /\ \E i, j \in 1..Len(tools) :
           /\ Malformed(response[i].inputSchema)
           /\ tools[i].function.parameters = EmptyObjectSchema
           /\ ~Malformed(response[j].inputSchema)
           /\ tools[j].function.parameters # EmptyObjectSchema

\* A step in which connect ran to its return.
ConnectReturned ==
    stacks_created' # stacks_created /\ connect_exception' = ""

\* C11: across any sequence of connect calls at most one connection is open
\* at a time: a connect leaves no connection open but the one it opened
\* itself, so the previous exit stack is closed, and a connect that returns
\* replaces the prior Session by the new one, the one open connection.
C11_OneConnectionOpen ==
    /\ [](Cardinality(open_stacks) <= 1)
    /\ [][/\ stacks_created' # stacks_created =>
                /\ exit_stack' = stacks_created'
                /\ exit_stack' \notin open_stacks
                /\ open_stacks' \subseteq {exit_stack'}
          /\ ConnectReturned =>
                /\ session' # session
                /\ session' = exit_stack'
                /\ open_stacks' = {session'}]_vars

\* A reconnect returned after a turn had been answered over the first Session.
C11_Witness ==
    /\ stacks_created = 2
    /\ connect_exception = ""
    /\ session = 2
    /\ open_stacks = {2}
    /\ Len(chatbot) >= 2
    /\ chatbot[2] # ConnectFirstMessage

\* C12: when connect fails, no partial Session is retained: the wrapper holds
\* no session and no open connection, a following process_message takes the
\* not-connected path, and the failure is the text of the status textbox.
C12_FailedConnectRetainsNothing ==
    connect_exception # "" =>
        /\ session = 0
        /\ open_stacks = {}
        /\ turn_session = 0
        /\ status = connect_exception

\* The message carries a metadata entry with a parent_id.
HasParent(m) == HasMetadata(m) /\ "parent_id" \in DOMAIN m.metadata

\* C13: in the sequence emitted for a turn, every message whose metadata has
\* a parent_id is preceded, earlier in the same sequence, by a message whose
\* metadata id equals that parent_id: a parameter display by the announcement
\* tool_call_<tool>, an image or raw result by the result announcement
\* result_<tool>.
C13_ParentEmittedEarlier ==
    \A k \in 1..Len(result_messages) :
        LET m == result_messages[k]
        IN  HasParent(m) =>
                /\ \E j \in 1..(k - 1) :
                       /\ HasMetadata(result_messages[j])
                       /\ result_messages[j].metadata.id = m.metadata.parent_id
                /\ \E name \in ToolNames :
                       \/ /\ m.metadata.id = "params_" \o name
                          /\ m.metadata.parent_id = "tool_call_" \o name
                       \/ /\ m.metadata.id \in {"image_" \o name,
                                                "raw_result_" \o name}
                          /\ m.metadata.parent_id = "result_" \o name

\* A returned turn that emitted a parameter display and a result payload.
C13_Witness ==
    /\ TurnReturned
    /\ \E k, l \in 1..Len(result_messages) :
           /\ HasParent(result_messages[k])
           /\ HasParent(result_messages[l])
           /\ result_messages[k].metadata.id = "params_draw"
           /\ result_messages[l].metadata.parent_id = "result_draw"
    /\ chatbot = history \o <<UserMessage(message)>> \o result_messages

\* The roles the outbound message list keeps.
KeptRoles == {"user", "assistant", "system"}

\* C14: the message list of the first engine call of a turn is the prior
\* history restricted to the messages whose role is user, assistant or
\* system, in their original order and reduced to role and content, followed
\* by the new user message as the last element.
C14_FirstRequestMessages ==
    engine_requests # <<>> =>
        LET sent == engine_requests[1].messages
            kept == SelectSeq(history, LAMBDA m : m.role \in KeptRoles)
        IN  /\ Len(sent) = Len(kept) + 1
            /\ \A k \in 1..Len(kept) :
                   /\ DOMAIN sent[k] = {"role", "content"}
                   /\ sent[k].role = kept[k].role
                   /\ sent[k].content = (IF "content" \in DOMAIN kept[k]
                                         THEN kept[k].content ELSE None)
            /\ sent[Len(sent)] = [role |-> "user", content |-> Str(message)]

\* A first request whose prior history held a message with metadata that was
\* kept and a tool message that was dropped.
C14_Witness ==
    /\ pc = "REQUESTING_COMPLETION"
    /\ Len(history) = 2
    /\ \E k \in 1..2 : history[k].role = "tool"
    /\ \E k \in 1..2 : "metadata" \in DOMAIN history[k]
    /\ Len(engine_requests[1].messages) = 2

\* The results of the tool invocations that returned, in order.
ReturnedResults == SelectSeq(tool_results, LAMBDA r : ~r.raised)

\* s is an initial part of t.
IsPrefix(s, t) == Len(s) <= Len(t) /\ SubSeq(t, 1, Len(s)) = s

\* C15: for each tool invocation exactly one pair is appended to the
\* outbound message list: an assistant message with empty content carrying
\* the tool-call request (its id, its name, its arguments serialised again),
\* immediately followed by a tool-role message whose tool_call_id is the
\* request's id and whose content is the joined result content.  The list
\* only grows within a turn: the j-th engine call receives the first call's
\* messages as a prefix plus one pair for each of the j-1 invocations
\* processed before it.
C15_PairPerInvocation ==
    /\ [](engine_requests # <<>> =>
            LET first == engine_requests[1].messages
                base == Len(first)
            IN  /\ Len(engine_requests) = Len(ReturnedResults) + 1
                /\ openai_messages =
                       engine_requests[Len(engine_requests)].messages
                /\ \A j \in 1..Len(engine_requests) :
                       LET sent == engine_requests[j].messages
                       IN  /\ Len(sent) = base + 2 * (j - 1)
                           /\ IsPrefix(first, sent)
                           /\ \A i \in 1..(j - 1) :
                                  LET echo == sent[base + 2 * i - 1]
                                      reply == sent[base + 2 * i]
                                      call == RequestedCalls[i]
                                      parsed == json_loads(call.function.arguments)
                                  IN  /\ echo.role = "assistant"
                                      /\ echo.content = None
                                      /\ Len(echo.tool_calls) = 1
                                      /\ echo.tool_calls[1].id = call.id
                                      /\ echo.tool_calls[1].type = "function"
                                      /\ echo.tool_calls[1].function.name =
                                             call.function.name
                                      /\ echo.tool_calls[1].function.arguments =
                                             json_dumps(parsed.value)
                                      /\ reply.role = "tool"
                                      /\ reply.tool_call_id = call.id
                                      /\ reply.content =
                                             Str(ResultText(tool_results[i].content)))
    /\ [][(pc \notin {"AWAITING_USER_INPUT", "DONE", "RAISED"}) =>
              IsPrefix(openai_messages, openai_messages')]_vars

\* A returned turn of two tool invocations, the first with a result of
\* several items: its last follow-up call received two pairs.
C15_Witness ==
    /\ TurnReturned
    /\ Len(engine_requests) = 3
    /\ tool_results[1].content.py = "list"
    /\ Len(tool_results[1].content.items) > 1
    /\ Len(engine_requests[3].messages) = Len(engine_requests[1].messages) + 4

\* The message carries the metadata status "pending".
IsPending(m) ==
    /\ HasMetadata(m)
    /\ "status" \in DOMAIN m.metadata
    /\ m.metadata.status = "pending"

\* C16: each tool-call announcement is emitted with the metadata status
\* pending and is set to done after its gateway invocation returns and before
\* its result messages are appended; the update lands on that call's own
\* announcement and on no other message, and no message of the sequence
\* returned for a completed turn, or of the history, has the status pending.
C16_PendingThenDone ==
    /\ [](/\ \A k \in 1..Len(result_messages) :
                 IsPending(result_messages[k]) =>
                     /\ pc \in {"EXECUTING_TOOLS", "RAISED"}
                     /\ k = Len(result_messages) - 1
                     /\ IsAnnouncementOf(result_messages[k],
                                         RequestedCalls[idx].function.name)
          /\ pc = "EXECUTING_TOOLS" =>
                 IsPending(result_messages[Len(result_messages) - 1])
          /\ pc = "DONE" =>
                 \A k \in 1..Len(result_messages) :
                     ~IsPending(result_messages[k])
          /\ \A k \in 1..Len(chatbot) : ~IsPending(chatbot[k]))
    /\ [][(pc = "EXECUTING_TOOLS" /\ pc' = "REQUESTING_FOLLOWUP") =>
              LET n == Len(result_messages)
                  name == RequestedCalls[idx].function.name
              IN  /\ Len(result_messages') > n
                  /\ IsAnnouncementOf(result_messages'[n - 1], name)
                  /\ result_messages'[n - 1] =
                         [result_messages[n - 1]
                             EXCEPT !.metadata.status = "done"]
                  /\ \A k \in 1..n :
                         k # n - 1 => result_messages'[k] = result_messages[k]
                  /\ IsResultAnnouncementOf(result_messages'[n + 1], name)]_vars

\* A returned turn of two tool invocations: both announcements are done.
C16_Witness ==
    /\ TurnReturned
    /\ Len(gateway_requests) = 2
    /\ Len(AnnouncementPositions(result_messages)) = 2
    /\ \A k \in 1..Len(result_messages) :
           IsAnnouncement(result_messages[k]) =>
               result_messages[k].metadata.status = "done"

\* How many remote calls the turn has issued.
IssuedCalls == Len(engine_requests) + Len(gateway_requests)

\* C17: within one turn no two remote calls (engine requests or gateway tool
\* invocations) are in flight at the same time: a remote call is issued only
\* when the previous one of the turn has returned, and every tool invocation
\* is issued on the Session that was connected when the turn started.
C17_OneRemoteCallAtATime ==
    /\ [](/\ Cardinality(in_flight) <= 1
          /\ pc \in {"REQUESTING_COMPLETION", "REQUESTING_FOLLOWUP"} =>
                 in_flight = {"completion"}
          /\ pc = "EXECUTING_TOOLS" => in_flight = {"call_tool"}
          /\ \A i \in 1..Len(gateway_requests) :
                 /\ gateway_requests[i].session = turn_session
                 /\ gateway_requests[i].session = session
                 /\ turn_session # 0)
    /\ [][/\ Len(gateway_requests') > Len(gateway_requests) =>
                 /\ in_flight \subseteq {"completion"}
                 /\ in_flight' = {"call_tool"}
                 /\ IssuedCalls' = IssuedCalls + 1
          /\ Len(engine_requests') > Len(engine_requests) =>
                 /\ in_flight \subseteq {"call_tool"}
                 /\ in_flight' = {"completion"}
                 /\ IssuedCalls' = IssuedCalls + 1]_vars

\* The second tool invocation of a turn is in flight, after the first
\* invocation and its follow-up request returned.
C17_Witness ==
    /\ pc = "EXECUTING_TOOLS"
    /\ idx = 2
    /\ Len(gateway_requests) = 2
    /\ Len(engine_requests) = 2
    /\ in_flight = {"call_tool"}
    /\ gateway_requests[2].session = turn_session

\* The turn was ended by the failure of a remote call.
RemoteCallRaised ==
    \/ exception = "CompletionEngineError"
    \/ /\ tool_results # <<>>
       /\ tool_results[Len(tool_results)].raised

\* The steps of the path of a turn, the direct answer being the step from
\* the first engine request to the end of the turn.
TurnPath ==
    {<<"REQUESTING_COMPLETION", "DONE">>,
     <<"REQUESTING_COMPLETION", "EXECUTING_TOOLS">>,
     <<"EXECUTING_TOOLS", "REQUESTING_FOLLOWUP">>,
     <<"REQUESTING_FOLLOWUP", "DONE">>}

\* C18: provided every remote call returns, every turn reaches DONE along
\* the path AWAITING_USER_INPUT -> REQUESTING_COMPLETION -> (DIRECT_ANSWER |
\* EXECUTING_TOOLS -> REQUESTING_FOLLOWUP) -> DONE: a turn is not ended
\* otherwise unless a remote call failed, the tool invocations are those of
\* the requests of the first engine response, each exactly once, and a
\* follow-up response starts no other round of tool execution.
C18_TurnReachesDone ==
    /\ [](/\ pc = "RAISED" => RemoteCallRaised
          /\ Len(gateway_requests) <= Len(RequestedCalls)
          /\ \A i \in 1..Len(gateway_requests) :
                 gateway_requests[i].name = RequestedCalls[i].function.name
          /\ TurnReturned => Len(gateway_requests) = Len(RequestedCalls))
    /\ [][(pc \notin {"AWAITING_USER_INPUT", "DONE", "RAISED"} /\ pc' # pc) =>
              \/ <<pc, pc'>> \in TurnPath
              \/ pc' = "RAISED" /\ RemoteCallRaised']_vars

\* C19: for every call of process_message that returns, connected or not,
\* the returned history is the prior history, unchanged, then the new user
\* message, then the messages emitted by the turn in emission order, and the
\* second return value is the cleared question textbox.
C19_ReturnedHistory ==
    /\ [](pc = "DONE" =>
            /\ chatbot =
                   history
                       \o <<[role |-> "user", content |-> Str(message)]>>
                       \o (IF turn_session = 0
                           THEN <<[role |-> "assistant",
                                   content |-> Str("Please connect to an MCP server first.")]>>
                           ELSE result_messages)
            /\ textbox = "")
    /\ [][(chatbot' # chatbot /\ chatbot' # <<>>) =>
              /\ pc' = "DONE"
              /\ history' = chatbot
              /\ IsPrefix(chatbot, chatbot')
              /\ Len(chatbot') >= Len(chatbot) + 2
              /\ textbox' = ""]_vars

\* A connected turn with tool messages returned on top of a prior history.
C19_Witness ==
    /\ TurnReturned
    /\ history # <<>>
    /\ Len(result_messages) >= 3
    /\ Len(chatbot) = Len(history) + 1 + Len(result_messages)
    /\ textbox = ""

\* C20: within the sequence emitted for one turn the metadata ids are unique:
\* no two emitted messages carry the same metadata id, also when the engine
\* requests the same tool more than once in the turn.
C20_MetadataIdsUnique ==
    \A k, l \in 1..Len(result_messages) :
        (/\ k # l
         /\ HasMetadata(result_messages[k])
         /\ HasMetadata(result_messages[l])) =>
            result_messages[k].metadata.id # result_messages[l].metadata.id

=============================================================================
